---- MODULE Spec2Model ----
(***************************************************************************)
(* Fleet routing (proyecto_c): formulation builders of caso 1/2/3, the     *)
(* solver adapter boundary, the termination handling of the run scripts    *)
(* and the route decoders / extractors.                                    *)
(*                                                                         *)
(* The solver is an external collaborator: a solver call is one action     *)
(* that returns a termination condition and, when it holds an incumbent,   *)
(* an assignment of the decision variables that satisfies every constraint *)
(* the builder emitted.  Binary variables are sets (member = value 1).     *)
(* Continuous quantities are integers: every instance below has integer    *)
(* data, the load and MTZ blocks are difference constraints (integral      *)
(* polytopes), and the auxiliary variables the extractors never read       *)
(* (carga, u, fuel level) are quantified inside the constraint predicates. *)
(***************************************************************************)
EXTENDS Integers, Sequences, FiniteSets, TLC

VARIABLES
  script,       \* entry point being run
  data,         \* data dictionary produced by the loader of the script's caso
  pc,           \* "built", "solved", "checked", "extracted", "aborted", "crashed"
  termination,  \* results.solver.termination_condition
  incumbent,    \* the solver holds a feasible assignment
  x,            \* selected arcs: set of <<v, i, j>> with x[v,i,j] = 1
  y,            \* used vehicles: set of v with y[v] = 1
  refuel,       \* refuel / recarga value per <<v, node>>
  reported,     \* what the script told the caller about the solve
  sol,          \* the extracted solution
  barrido,      \* progress of the price sweep of analisis_caso3
  escalabilidad \* scenarios of test_escalabilidad_caso2, its results file and what is read of it

vars == <<script, data, pc, termination, incumbent, x, y, refuel, reported, sol, barrido,
          escalabilidad>>

----------------------------------------------------------------------------
(* Generic helpers *)

SeqToSet(s) == {s[k] : k \in 1..Len(s)}

RECURSIVE SumOver(_, _)
SumOver(f, S) ==
  IF S = {} THEN 0
  ELSE LET e == CHOOSE e \in S : TRUE IN f[e] + SumOver(f, S \ {e})

MaxOf(S) == CHOOSE m \in S : \A k \in S : k <= m
MinOf(S) == CHOOSE m \in S : \A k \in S : m <= k

\* [(i, j) for i in nodes for j in nodes if i != j], in iteration order
PairsInOrder(nodes) ==
  LET n == Len(nodes)
      all == [k \in 1..(n * n) |-> <<nodes[((k - 1) \div n) + 1], nodes[((k - 1) % n) + 1]>>]
  IN SelectSeq(all, LAMBDA a : a[1] # a[2])

----------------------------------------------------------------------------
(* Bounds of the model *)

\* largest refuel amount the solver is let to assign where the code leaves it unbounded
MaxRecarga == 1

----------------------------------------------------------------------------
(* Raw input tables (what the CSV / JSON files hold).  dist is symmetric.  *)

Uniform(nodes, d) == [a \in (SeqToSet(nodes) \X SeqToSet(nodes)) |-> IF a[1] = a[2] THEN 0 ELSE d]

NoRestrictions == << >>

\* one client whose demand exceeds the only vehicle's capacity
RawSingle ==
  [ depot |-> "D", clients |-> <<"A">>, stations |-> << >>, vehicles |-> <<"V1">>,
    demand |-> [c \in {"A"} |-> 4], capacity |-> [v \in {"V1"} |-> 3],
    range |-> [v \in {"V1"} |-> 2], efficiency |-> 2,
    dist |-> Uniform(<<"D", "A">>, 2),
    restrictions |-> NoRestrictions, extra_forbidden |-> << >> ]

\* two clients, two vehicles, restriction rows of every kind the loader meets
RawPair ==
  [ depot |-> "D", clients |-> <<"A", "B">>, stations |-> << >>, vehicles |-> <<"V1", "V2">>,
    demand |-> [c \in {"A", "B"} |-> IF c = "A" THEN 1 ELSE 2],
    capacity |-> [v \in {"V1", "V2"} |-> 3],
    range |-> [v \in {"V1", "V2"} |-> 6], efficiency |-> 2,
    dist |-> Uniform(<<"D", "A", "B">>, 2),
    restrictions |-> << [type |-> "RESTRICTED", vehicle |-> "V1", origin |-> "D", dest |-> "A"],
                        [type |-> "forbidden",  vehicle |-> "ALL", origin |-> "A", dest |-> "B"],
                        [type |-> "FORBIDDEN",  vehicle |-> "V2", origin |-> "B", dest |-> "D"],
                        [type |-> "FORBIDDEN",  vehicle |-> "ALL", origin |-> "A", dest |-> "Z"] >>,
    extra_forbidden |-> << <<"B", "A">>, <<"A">> >> ]

\* one client and two stations; the direct depot -> client arc is forbidden
RawStations ==
  [ depot |-> "D", clients |-> <<"A">>, stations |-> <<"S", "T">>, vehicles |-> <<"V1">>,
    demand |-> [c \in {"A"} |-> 1], capacity |-> [v \in {"V1"} |-> 2],
    range |-> [v \in {"V1"} |-> 2], efficiency |-> 2,
    dist |-> Uniform(<<"D", "A", "S", "T">>, 2),
    restrictions |-> << [type |-> "FORBIDDEN", vehicle |-> "ALL", origin |-> "D", dest |-> "A"] >>,
    extra_forbidden |-> << >> ]

\* two vehicles, one client and two stations, no restriction
RawFleet ==
  [ depot |-> "D", clients |-> <<"A">>, stations |-> <<"S", "T">>, vehicles |-> <<"V1", "V2">>,
    demand |-> [c \in {"A"} |-> 1], capacity |-> [v \in {"V1", "V2"} |-> 2],
    range |-> [v \in {"V1", "V2"} |-> 4], efficiency |-> 2,
    dist |-> Uniform(<<"D", "A", "S", "T">>, 2),
    restrictions |-> << >>,
    extra_forbidden |-> << >> ]

\* clients A (demand 10) and B (demand 15), one vehicle of capacity 30 whose range covers
\* any tour, every arc of distance 5
RawTwoClients ==
  [ depot |-> "D", clients |-> <<"A", "B">>, stations |-> << >>, vehicles |-> <<"V1">>,
    demand |-> [c \in {"A", "B"} |-> IF c = "A" THEN 10 ELSE 15],
    capacity |-> [v \in {"V1"} |-> 30],
    range |-> [v \in {"V1"} |-> 20], efficiency |-> 5,
    dist |-> Uniform(<<"D", "A", "B">>, 5),
    restrictions |-> << >>,
    extra_forbidden |-> << >> ]

\* two clients of demand 20 each, vehicles of capacity 30, every arc of distance 5 and a
\* range that covers any tour; one vehicle is available
RawShortfallOne ==
  [ depot |-> "D", clients |-> <<"A", "B">>, stations |-> << >>, vehicles |-> <<"V1">>,
    demand |-> [c \in {"A", "B"} |-> 20],
    capacity |-> [v \in {"V1"} |-> 30],
    range |-> [v \in {"V1"} |-> 20], efficiency |-> 5,
    dist |-> Uniform(<<"D", "A", "B">>, 5),
    restrictions |-> << >>,
    extra_forbidden |-> << >> ]

\* the same data with two vehicles available
RawShortfallTwo ==
  [ RawShortfallOne EXCEPT !.vehicles = <<"V1", "V2">>,
                           !.capacity = [v \in {"V1", "V2"} |-> 30],
                           !.range = [v \in {"V1", "V2"} |-> 20] ]

\* one client whose round trip (4) exceeds the range of the tank (2); no station
RawFuelNoStation ==
  [ depot |-> "D", clients |-> <<"A">>, stations |-> << >>, vehicles |-> <<"V1">>,
    demand |-> [c \in {"A"} |-> 1], capacity |-> [v \in {"V1"} |-> 2],
    range |-> [v \in {"V1"} |-> 2], efficiency |-> 1,
    dist |-> Uniform(<<"D", "A">>, 2),
    restrictions |-> << >>,
    extra_forbidden |-> << >> ]

\* the same client with a station S midway between the depot and the client
RawFuelStation ==
  [ RawFuelNoStation EXCEPT
      !.stations = <<"S">>,
      !.dist = [a \in {"D", "A", "S"} \X {"D", "A", "S"} |->
                  IF a[1] = a[2] THEN 0 ELSE IF "S" \in {a[1], a[2]} THEN 1 ELSE 2] ]

RawInputs == {RawSingle, RawPair, RawStations, RawTwoClients, RawShortfallOne, RawShortfallTwo,
              RawFuelNoStation, RawFuelStation}

\* price column of the stations file (COP per gallon); an instance keeps the whole table
\* and selects its stations out of it
FuelCost == [s \in {"S", "T"} |-> IF s = "S" THEN 14000 ELSE 16000]

\* rows of tolls.csv
TollRows == << [origin |-> "S", dest |-> "A", cost |-> 2000],
               [origin |-> "A", dest |-> "Z", cost |-> 9000] >>

----------------------------------------------------------------------------
(* Data loaders *)

EmptyRestricted(vehicles) == [v \in SeqToSet(vehicles) |-> {}]

SinTarifa == [a \in {} |-> 0]

\* tolls.csv: a row is kept when both of its nodes exist
TollFromFile(NODES) ==
  LET filas == {TollRows[k] : k \in {k \in 1..Len(TollRows) :
                    /\ TollRows[k].origin \in SeqToSet(NODES)
                    /\ TollRows[k].dest \in SeqToSet(NODES)}}
  IN [a \in {<<r.origin, r.dest>> : r \in filas} |->
        (CHOOSE r \in filas : <<r.origin, r.dest>> = a).cost]

cargar_datos_caso1(raw) ==
  LET NODES == <<raw.depot>> \o raw.clients IN
  [ DEPOT |-> raw.depot, CLIENTS |-> raw.clients, STATIONS |-> << >>, NODES |-> NODES,
    VEHICLES |-> raw.vehicles, demanda |-> raw.demand, load_cap |-> raw.capacity,
    max_dist |-> raw.range,
    fuel_cap |-> [v \in SeqToSet(raw.vehicles) |-> 0],
    dist |-> raw.dist,
    consumo |-> [a \in DOMAIN raw.dist |-> 0],
    ARCS |-> << >>, FORBIDDEN_ARCS |-> {}, RESTRICTED_ARCS |-> EmptyRestricted(raw.vehicles),
    cost_fixed |-> 300000, cost_km |-> 3000, fuel_price |-> SinTarifa, toll_cost |-> SinTarifa ]

cargar_datos_caso2(raw) ==
  LET nodes == <<raw.depot>> \o raw.clients \o raw.stations IN
  [ DEPOT |-> raw.depot, CLIENTS |-> raw.clients, STATIONS |-> raw.stations, NODES |-> nodes,
    VEHICLES |-> raw.vehicles, demanda |-> raw.demand, load_cap |-> raw.capacity,
    max_dist |-> raw.range,
    fuel_cap |-> [v \in SeqToSet(raw.vehicles) |-> raw.range[v] \div raw.efficiency],
    dist |-> raw.dist,
    consumo |-> [a \in DOMAIN raw.dist |-> raw.dist[a] \div raw.efficiency],
    ARCS |-> PairsInOrder(nodes), FORBIDDEN_ARCS |-> {},
    RESTRICTED_ARCS |-> EmptyRestricted(raw.vehicles),
    cost_fixed |-> 80000, cost_km |-> 4500, fuel_price |-> FuelCost, toll_cost |-> SinTarifa ]

\* rtype = row['RestrictionType'].upper()
Upper(s) == IF s = "forbidden" THEN "FORBIDDEN" ELSE IF s = "restricted" THEN "RESTRICTED" ELSE s

\* rows of restrictions.csv whose two nodes exist
ValidRows(raw, NODES) ==
  {raw.restrictions[k] : k \in {k \in 1..Len(raw.restrictions) :
       /\ raw.restrictions[k].origin \in SeqToSet(NODES)
       /\ raw.restrictions[k].dest \in SeqToSet(NODES)}}

ForbiddenFromFile(raw, NODES) ==
  {<<r.origin, r.dest>> : r \in {r \in ValidRows(raw, NODES) :
       Upper(r.type) = "FORBIDDEN" /\ r.vehicle = "ALL"}}

RestrictedFromFile(raw, NODES) ==
  [v \in SeqToSet(raw.vehicles) |->
     {<<r.origin, r.dest>> : r \in {r \in ValidRows(raw, NODES) :
         Upper(r.type) = "RESTRICTED" /\ r.vehicle = v}}]

\* scenario 'additional_forbidden_arcs': entries of length 2 only
ExtraForbidden(raw) ==
  {<<raw.extra_forbidden[k][1], raw.extra_forbidden[k][2]>> :
      k \in {k \in 1..Len(raw.extra_forbidden) : Len(raw.extra_forbidden[k]) = 2}}

cargar_datos_caso3(raw) ==
  LET NODES == <<raw.depot>> \o raw.clients \o raw.stations
      F0    == ForbiddenFromFile(raw, NODES)
      ARCS0 == SelectSeq(PairsInOrder(NODES), LAMBDA a : a \notin F0)
      FORB  == F0 \cup ExtraForbidden(raw)
      ARCS  == SelectSeq(ARCS0, LAMBDA a : a \notin ExtraForbidden(raw))
  IN
  [ DEPOT |-> raw.depot, CLIENTS |-> raw.clients, STATIONS |-> raw.stations, NODES |-> NODES,
    VEHICLES |-> raw.vehicles, demanda |-> raw.demand, load_cap |-> raw.capacity,
    max_dist |-> raw.range,
    fuel_cap |-> [v \in SeqToSet(raw.vehicles) |-> raw.range[v] \div raw.efficiency],
    dist |-> raw.dist,
    consumo |-> [a \in DOMAIN raw.dist |-> raw.dist[a] \div raw.efficiency],
    ARCS |-> ARCS, FORBIDDEN_ARCS |-> FORB,
    RESTRICTED_ARCS |-> RestrictedFromFile(raw, NODES),
    cost_fixed |-> 80000, cost_km |-> 4500, fuel_price |-> FuelCost,
    toll_cost |-> TollFromFile(NODES) ]

----------------------------------------------------------------------------
(* Shared reading of an assignment *)

Nodes(d)    == SeqToSet(d.NODES)
Clients(d)  == SeqToSet(d.CLIENTS)
Stations(d) == SeqToSet(d.STATIONS)
Vehicles(d) == SeqToSet(d.VEHICLES)

\* sum of x[v,i,j] over the index triples of X that satisfy the filter
Entrada(xs, v, n) == Cardinality({a \in xs : a[1] = v /\ a[3] = n})
Salida(xs, v, n)  == Cardinality({a \in xs : a[1] = v /\ a[2] = n})
Xval(xs, v, i, j) == IF <<v, i, j>> \in xs THEN 1 ELSE 0
Yval(ys, v)       == IF v \in ys THEN 1 ELSE 0

----------------------------------------------------------------------------
(* Caso 1: build_model *)

\* valid_arcs_init: depot -> clients, client -> client, clients -> depot, per vehicle
ArcsOfVehicle1(d, v) ==
  LET C == d.CLIENTS IN
       [k \in 1..Len(C) |-> <<v, d.DEPOT, C[k]>>]
    \o [k \in 1..Len(PairsInOrder(C)) |-> <<v, PairsInOrder(C)[k][1], PairsInOrder(C)[k][2]>>]
    \o [k \in 1..Len(C) |-> <<v, C[k], d.DEPOT>>]

RECURSIVE ConcatVehicles1(_, _)
ConcatVehicles1(d, k) ==
  IF k > Len(d.VEHICLES) THEN << >>
  ELSE ArcsOfVehicle1(d, d.VEHICLES[k]) \o ConcatVehicles1(d, k + 1)

valid_arcs_init(d) == ConcatVehicles1(d, 1)

rule_asignacion_clientes(d, xs, i) ==
  Cardinality({a \in xs : a[3] = i}) = 1

rule_salida_deposito(d, xs, ys, v) == Salida(xs, v, d.DEPOT) = Yval(ys, v)

rule_regreso_deposito(d, xs, ys, v) == Entrada(xs, v, d.DEPOT) = Yval(ys, v)

\* variant without the balance of entries and exits at the clients
rule_conservacion_omitida(d, xs, v, i) == Entrada(xs, v, i) <= 1 /\ Salida(xs, v, i) <= 1

rule_conservacion_flujo(d, xs, v, i) == Entrada(xs, v, i) = Salida(xs, v, i)

\* variant that counts the clients of the vehicle instead of adding their demands
rule_capacidad_sin_demanda(d, xs, v) ==
  SumOver([i \in Clients(d) |-> Entrada(xs, v, i)], Clients(d)) <= d.load_cap[v]

rule_capacidad(d, xs, v) ==
  SumOver([i \in Clients(d) |-> d.demanda[i] * Entrada(xs, v, i)], Clients(d)) <= d.load_cap[v]

rule_autonomia(d, xs, v) ==
  LET mine == {a \in xs : a[1] = v} IN
  SumOver([a \in mine |-> d.dist[<<a[2], a[3]>>]], mine) <= d.max_dist[v]

\* u[v,i] has bounds (1, len(CLIENTS)); the rule is emitted for client pairs in ARCS
rule_mtz(d, xs, v, u) ==
  LET n == Len(d.CLIENTS) IN
  \A i \in Clients(d), j \in Clients(d) :
     (i # j) => (u[i] - u[j] + n * Xval(xs, v, i, j) <= n - 1)

\* x[v,i,j] <= y[v] for the arcs of vehicle v
rule_vinculacion_x_y(d, xs, ys, v) == \A a \in xs : a[1] = v => v \in ys

\* the constraints of build_model indexed by vehicle v that involve only x and y
ruteo_caso1(d, xs, ys, v) ==
  /\ rule_salida_deposito(d, xs, ys, v)
  /\ rule_regreso_deposito(d, xs, ys, v)
  /\ rule_vinculacion_x_y(d, xs, ys, v)
  /\ \A i \in Clients(d) : rule_conservacion_flujo(d, xs, v, i)
  /\ rule_capacidad(d, xs, v)
  /\ rule_autonomia(d, xs, v)

\* every constraint of build_model indexed by vehicle v
restricciones_vehiculo_caso1(d, xs, ys, v) ==
  /\ ruteo_caso1(d, xs, ys, v)
  /\ \E u \in [Clients(d) -> 1..Len(d.CLIENTS)] : rule_mtz(d, xs, v, u)

build_model(d, xs, ys) ==
  /\ \A i \in Clients(d) : rule_asignacion_clientes(d, xs, i)
  /\ \A v \in Vehicles(d) : restricciones_vehiculo_caso1(d, xs, ys, v)

----------------------------------------------------------------------------
(* Caso 2: build_model_caso2 *)

\* model.x is indexed by V x A, A = all ordered pairs of distinct nodes
XIndex2(d) == {<<v, a[1], a[2]>> : v \in Vehicles(d), a \in SeqToSet(PairsInOrder(d.NODES))}

asignacion_clientes_rule(d, xs, c) == Cardinality({a \in xs : a[3] = c}) = 1

salida_depot_rule(d, xs, ys, v) == Salida(xs, v, d.DEPOT) = Yval(ys, v)

retorno_depot_rule(d, xs, ys, v) == Entrada(xs, v, d.DEPOT) = Yval(ys, v)

conservacion_flujo_rule_caso2(d, xs, v, i) ==
  (i # d.DEPOT) => (Entrada(xs, v, i) = Salida(xs, v, i))

carga_inicial_rule(d, v, cargo) == cargo[d.DEPOT] = 0

balance_carga_rule_caso2(d, xs, v, cargo) ==
  \A i \in Nodes(d), j \in Nodes(d) :
     (i # j /\ i # d.DEPOT /\ j # d.DEPOT) =>
        LET M == d.load_cap[v]
            demanda_j == IF j \in Clients(d) THEN d.demanda[j] ELSE 0
        IN cargo[j] >= cargo[i] + demanda_j - M * (1 - Xval(xs, v, i, j))

capacidad_carga_rule_caso2(d, v, cargo) == \A i \in Nodes(d) : cargo[i] <= d.load_cap[v]

combustible_inicial_rule(d, v, combustible) == combustible[d.DEPOT] = d.fuel_cap[v]

balance_combustible_rule_caso2(d, xs, v, combustible, rf) ==
  \A i \in Nodes(d), j \in Nodes(d) :
     (i # j) =>
        LET consumo == d.consumo[<<i, j>>]
            M == d.fuel_cap[v] + consumo
        IN combustible[j] >= combustible[i] - consumo + rf[<<v, j>>]
                               - M * (1 - Xval(xs, v, i, j))

capacidad_combustible_rule_caso2(d, v, combustible) ==
  \A i \in Nodes(d) : combustible[i] <= d.fuel_cap[v]

\* variant that skips the rule at the clients as well
recarga_solo_estaciones_omitida(d, v, rf) ==
  \A i \in Nodes(d) :
     (i \notin Clients(d) /\ i \notin Stations(d) /\ i # d.DEPOT) => rf[<<v, i>>] = 0

recarga_solo_estaciones_rule_caso2(d, v, rf) ==
  \A i \in Nodes(d) : (i \notin Stations(d) /\ i # d.DEPOT) => rf[<<v, i>>] = 0

combustible_no_negativo_rule(d, v, combustible) == \A i \in Nodes(d) : combustible[i] >= 0

\* the constraints of build_model_caso2 indexed by vehicle v that involve only x and y
ruteo_caso2(d, xs, ys, v) ==
  /\ salida_depot_rule(d, xs, ys, v)
  /\ retorno_depot_rule(d, xs, ys, v)
  /\ \A i \in Nodes(d) : conservacion_flujo_rule_caso2(d, xs, v, i)

\* every constraint of build_model_caso2 indexed by vehicle v
restricciones_vehiculo_caso2(d, xs, ys, rf, v) ==
  /\ ruteo_caso2(d, xs, ys, v)
  /\ recarga_solo_estaciones_rule_caso2(d, v, rf)
  /\ \E cargo \in [Nodes(d) -> 0..d.load_cap[v]] :
        /\ carga_inicial_rule(d, v, cargo)
        /\ balance_carga_rule_caso2(d, xs, v, cargo)
        /\ capacidad_carga_rule_caso2(d, v, cargo)
  /\ \E combustible \in [Nodes(d) -> 0..d.fuel_cap[v]] :
        /\ combustible_inicial_rule(d, v, combustible)
        /\ combustible_no_negativo_rule(d, v, combustible)
        /\ capacidad_combustible_rule_caso2(d, v, combustible)
        /\ balance_combustible_rule_caso2(d, xs, v, combustible, rf)

build_model_caso2(d, xs, ys, rf) ==
  /\ \A c \in Clients(d) : asignacion_clientes_rule(d, xs, c)
  /\ \A v \in Vehicles(d) : restricciones_vehiculo_caso2(d, xs, ys, rf, v)

----------------------------------------------------------------------------
(* Caso 3: build_model_caso3 *)

\* mutation of arcos_validos_por_vehiculo: the arcs restricted for the vehicle are kept
arcos_validos_sin_filtro(d, v) == d.ARCS

\* A_v = [arc for arc in ARCS if arc not in RESTRICTED_ARCS[v]]
arcos_validos_por_vehiculo(d, v) ==
  SelectSeq(d.ARCS, LAMBDA a : a \notin d.RESTRICTED_ARCS[v])

\* x_index_set: (v, i, j) for v in V for (i, j) in A_v[v]
x_index_set(d) ==
  UNION {{<<v, a[1], a[2]>> : a \in SeqToSet(arcos_validos_por_vehiculo(d, v))} : v \in Vehicles(d)}

A_v(d, v) == SeqToSet(arcos_validos_por_vehiculo(d, v))

\* every client is left exactly once
asignacion_rule(d, xs, j) == Cardinality({a \in xs : a[2] = j}) = 1

\* variant that asks for at least y[v] arcs out of the depot
flujo_depot_salida_minimo(d, xs, ys, v) == Salida(xs, v, d.DEPOT) >= Yval(ys, v)

flujo_depot_salida_rule(d, xs, ys, v) == Salida(xs, v, d.DEPOT) = Yval(ys, v)

flujo_depot_entrada_rule(d, xs, ys, v) == Entrada(xs, v, d.DEPOT) = Yval(ys, v)

\* emitted for clients only
conservacion_flujo_rule_caso3(d, xs, v, k) == Entrada(xs, v, k) = Salida(xs, v, k)

\* x[v,i,j] <= y[v] for the arcs of vehicle v
vinculacion_xy_rule(d, xs, ys, v) == \A a \in xs : a[1] = v => v \in ys

mtz_rule(d, xs, v, u) ==
  LET n == Len(d.NODES) IN
  \A a \in A_v(d, v) :
     (a[1] # d.DEPOT /\ a[2] # d.DEPOT) =>
        (u[a[1]] - u[a[2]] + n * Xval(xs, v, a[1], a[2]) <= n - 1)

balance_carga_rule_caso3(d, xs, v, carga) ==
  \A a \in A_v(d, v) :
     LET i == a[1]
         j == a[2]
         Q == d.load_cap[v]
     IN IF i = d.DEPOT THEN carga[j] = 0
        ELSE IF j = d.DEPOT THEN TRUE
        ELSE IF j \in Clients(d)
             THEN carga[j] >= carga[i] + d.demanda[j] - Q * (1 - Xval(xs, v, i, j))
             ELSE carga[j] >= carga[i] - Q * (1 - Xval(xs, v, i, j))

capacidad_carga_rule_caso3(d, v, carga) == \A i \in Nodes(d) : carga[i] <= d.load_cap[v]

limite_combustible_inicial_rule(d, v, fuel) == fuel[d.DEPOT] <= d.fuel_cap[v]

balance_combustible_rule_caso3(d, xs, v, fuel, rf) ==
  \A a \in A_v(d, v) :
     LET i == a[1]
         j == a[2]
         consumo == d.consumo[<<i, j>>]
         M == d.fuel_cap[v] + consumo
     IN fuel[j] >= fuel[i] - consumo + rf[<<v, j>>] - M * (1 - Xval(xs, v, i, j))

no_negatividad_combustible_rule(d, v, fuel) == \A i \in Nodes(d) : fuel[i] >= 0

capacidad_combustible_rule_caso3(d, v, fuel) == \A i \in Nodes(d) : fuel[i] <= d.fuel_cap[v]

recarga_solo_estaciones_rule_caso3(d, v, rf) == \A i \in Clients(d) : rf[<<v, i>>] = 0

limite_recarga_rule(d, v, rf) == \A i \in Nodes(d) : rf[<<v, i>>] <= d.fuel_cap[v]

\* the constraints of build_model_caso3 indexed by vehicle v that involve only x and y
ruteo_caso3(d, xs, ys, v) ==
  /\ flujo_depot_salida_rule(d, xs, ys, v)
  /\ flujo_depot_entrada_rule(d, xs, ys, v)
  /\ vinculacion_xy_rule(d, xs, ys, v)
  /\ \A k \in Clients(d) : conservacion_flujo_rule_caso3(d, xs, v, k)

\* every constraint of build_model_caso3 indexed by vehicle v
restricciones_vehiculo_caso3(d, xs, ys, rf, v) ==
  /\ ruteo_caso3(d, xs, ys, v)
  /\ recarga_solo_estaciones_rule_caso3(d, v, rf)
  /\ limite_recarga_rule(d, v, rf)
  /\ \E u \in [Nodes(d) -> 0..Len(d.NODES)] : mtz_rule(d, xs, v, u)
  /\ \E carga \in [Nodes(d) -> 0..d.load_cap[v]] :
        /\ balance_carga_rule_caso3(d, xs, v, carga)
        /\ capacidad_carga_rule_caso3(d, v, carga)
  /\ \E fuel \in [Nodes(d) -> 0..d.fuel_cap[v]] :
        /\ limite_combustible_inicial_rule(d, v, fuel)
        /\ no_negatividad_combustible_rule(d, v, fuel)
        /\ capacidad_combustible_rule_caso3(d, v, fuel)
        /\ balance_combustible_rule_caso3(d, xs, v, fuel, rf)

build_model_caso3(d, xs, ys, rf) ==
  /\ \A j \in Clients(d) : asignacion_rule(d, xs, j)
  /\ \A v \in Vehicles(d) : restricciones_vehiculo_caso3(d, xs, ys, rf, v)

----------------------------------------------------------------------------
(* Entry points and what each of them builds *)

Scripts == {"run_caso1", "run_caso2", "resolver_modelo_caso2", "generar_outputs_caso2_oficial",
            "extraer_solucion_caso2_py", "test_escenario", "run_caso3"}

\* entry points that call solver.solve(model, load_solutions=False)
LoadsExplicitly == {"run_caso2", "run_caso3"}

Caso(s) == IF s = "run_caso1" THEN 1 ELSE IF s \in {"run_caso3", "analisis_caso3"} THEN 3 ELSE 2

cargar_datos(s, raw) ==
  IF Caso(s) = 1 THEN cargar_datos_caso1(raw)
  ELSE IF Caso(s) = 2 THEN cargar_datos_caso2(raw)
  ELSE cargar_datos_caso3(raw)

\* index set of model.x
XIndex(s, d) ==
  IF Caso(s) = 1 THEN SeqToSet(valid_arcs_init(d))
  ELSE IF Caso(s) = 2 THEN XIndex2(d)
  ELSE x_index_set(d)

SinRecarga(d) == [p \in Vehicles(d) \X Nodes(d) |-> 0]

\* values the solver may give to recarga / refuel
RefuelSpace(s, d) ==
  IF Caso(s) = 1 THEN {SinRecarga(d)}
  ELSE [Vehicles(d) \X Nodes(d) -> 0..MaxRecarga]

\* the assignment satisfies every constraint the builder emitted
Satisface(s, d, xs, ys, rf) ==
  IF Caso(s) = 1 THEN build_model(d, xs, ys)
  ELSE IF Caso(s) = 2 THEN build_model_caso2(d, xs, ys, rf)
  ELSE build_model_caso3(d, xs, ys, rf)

\* the constraints indexed by client: each client is assigned exactly once
AsignacionClientes(s, d, xs) ==
  IF Caso(s) = 1 THEN \A i \in Clients(d) : rule_asignacion_clientes(d, xs, i)
  ELSE IF Caso(s) = 2 THEN \A c \in Clients(d) : asignacion_clientes_rule(d, xs, c)
  ELSE \A j \in Clients(d) : asignacion_rule(d, xs, j)

RuteoVehiculo(s, d, xs, ys, v) ==
  IF Caso(s) = 1 THEN ruteo_caso1(d, xs, ys, v)
  ELSE IF Caso(s) = 2 THEN ruteo_caso2(d, xs, ys, v)
  ELSE ruteo_caso3(d, xs, ys, v)

RestriccionesVehiculo(s, d, xs, ys, rf, v) ==
  IF Caso(s) = 1 THEN restricciones_vehiculo_caso1(d, xs, ys, v)
  ELSE IF Caso(s) = 2 THEN restricciones_vehiculo_caso2(d, xs, ys, rf, v)
  ELSE restricciones_vehiculo_caso3(d, xs, ys, rf, v)

\* values of recarga / refuel that differ from zero at the nodes of vehicle v only
RefuelVehiculo(s, d, v) ==
  IF Caso(s) = 1 THEN {SinRecarga(d)}
  ELSE {[p \in Vehicles(d) \X Nodes(d) |-> IF p[1] = v THEN r[p[2]] ELSE 0] :
           r \in [Nodes(d) -> 0..MaxRecarga]}

\* values <<x, y, refuel>> of the variables indexed by vehicle v that satisfy the
\* constraints indexed by v
PartesVehiculo(s, d, v) ==
  UNION {UNION {{<<xv, yv, rv>> :
                    rv \in {r \in RefuelVehiculo(s, d, v) :
                               RestriccionesVehiculo(s, d, xv, yv, r, v)}} :
                  yv \in {w \in {{}, {v}} : RuteoVehiculo(s, d, xv, w, v)}} :
            xv \in SUBSET {t \in XIndex(s, d) : t[1] = v}}

\* one part per vehicle for the first k vehicles, put together
RECURSIVE Combinaciones(_, _, _)
Combinaciones(s, d, k) ==
  IF k = 0 THEN {<<{}, {}, SinRecarga(d)>>}
  ELSE {<<a[1] \cup b[1], a[2] \cup b[2],
          [p \in Vehicles(d) \X Nodes(d) |-> a[3][p] + b[3][p]]>> :
            a \in Combinaciones(s, d, k - 1), b \in PartesVehiculo(s, d, d.VEHICLES[k])}

\* assignments the solver can hold: <<x, y, refuel>> satisfying the model. Every
\* constraint but the client assignment is indexed by one vehicle and reads the
\* variables of that vehicle only.
Asignaciones(s, d) ==
  {a \in Combinaciones(s, d, Len(d.VEHICLES)) : AsignacionClientes(s, d, a[1])}

Factible(s, d) == Asignaciones(s, d) # {}

SinCostos == [costo_total |-> 0, costo_fijo |-> 0, costo_distancia |-> 0,
              costo_combustible |-> 0, costo_peajes |-> 0]

NoSol == [rutas |-> << >>, num_vehiculos |-> 0, advertencias |-> {}, costos |-> SinCostos,
          recargas |-> << >>]

\* no scenario run, no results file, nothing read
SinEscalabilidad == [resultados |-> << >>, archivo |-> << >>, existe |-> FALSE, max_factible |-> 0]

\* no variation evaluated yet
SinBarrido == [k |-> 0, fuel_price |-> SinTarifa, resultados |-> << >>]

----------------------------------------------------------------------------
(* Construction and the solver call *)

Init ==
  /\ script \in Scripts
  /\ \E raw \in RawInputs : data = cargar_datos(script, raw)
  /\ pc = "built"
  /\ termination = "none"
  /\ incumbent = FALSE
  /\ x = {}
  /\ y = {}
  /\ refuel = SinRecarga(data)
  /\ reported = "none"
  /\ sol = NoSol
  /\ barrido = SinBarrido
  /\ escalabilidad = SinEscalabilidad

\* the solver returns holding an assignment: proven optimal, within the gap, or the best
\* found when the time limit struck
Solve ==
  /\ pc = "built"
  /\ \E a \in Asignaciones(script, data) :
        /\ x' = a[1]
        /\ y' = a[2]
        /\ refuel' = a[3]
  /\ termination' \in {"optimal", "feasible", "maxTimeLimit"}
  /\ incumbent' = TRUE
  /\ pc' = "solved"
  /\ UNCHANGED <<escalabilidad, barrido, script, data, reported, sol>>

\* the solver returns without an assignment: time limit, or infeasibility proven
SolveNoIncumbent ==
  /\ pc = "built"
  /\ \/ termination' = "maxTimeLimit"
     \/ termination' = "infeasible" /\ ~Factible(script, data)
  /\ incumbent' = FALSE
  /\ pc' = "solved"
  /\ UNCHANGED <<escalabilidad, barrido, script, data, x, y, refuel, reported, sol>>

\* with load_solutions left at its default the adapter may raise when there is nothing to load
SolveRaises ==
  /\ pc = "built"
  /\ script \notin LoadsExplicitly
  /\ termination' \in {"maxTimeLimit", "infeasible"}
  /\ termination' = "infeasible" => ~Factible(script, data)
  /\ incumbent' = FALSE
  /\ pc' = "crashed"
  /\ reported' = "error"
  /\ UNCHANGED <<escalabilidad, barrido, script, data, x, y, refuel, sol>>

----------------------------------------------------------------------------
(* Termination handling of each entry point *)

\* run_caso1: optimal, feasible, maxTimeLimit and other all print a success line; the
\* objective is then evaluated, which fails when no value was loaded
main_run_caso1 ==
  /\ pc = "solved"
  /\ script = "run_caso1"
  /\ reported' = IF termination = "optimal" THEN "optimal"
                 ELSE IF termination \in {"feasible", "maxTimeLimit", "other"} THEN "feasible"
                 ELSE "error"
  /\ pc' = IF termination \in {"optimal", "feasible", "maxTimeLimit", "other"}
           THEN (IF incumbent THEN "checked" ELSE "crashed")
           ELSE "aborted"
  /\ UNCHANGED <<escalabilidad, barrido, script, data, termination, incumbent, x, y, refuel, sol>>

main_run_caso2 ==
  /\ pc = "solved"
  /\ script = "run_caso2"
  /\ reported' = IF termination = "optimal" THEN "optimal"
                 ELSE IF termination = "feasible" THEN "feasible"
                 ELSE IF termination = "maxTimeLimit"
                      THEN (IF incumbent THEN "feasible" ELSE "no_solution")
                 ELSE "error"
  /\ pc' = IF reported' \in {"optimal", "feasible"} THEN "checked" ELSE "aborted"
  /\ UNCHANGED <<escalabilidad, barrido, script, data, termination, incumbent, x, y, refuel, sol>>

main_run_caso3 ==
  /\ pc = "solved"
  /\ script = "run_caso3"
  /\ reported' = IF termination = "optimal" THEN "optimal"
                 ELSE IF termination = "feasible" THEN "feasible"
                 ELSE IF termination = "maxTimeLimit"
                      THEN (IF incumbent THEN "feasible" ELSE "no_solution")
                 ELSE "no_solution"
  /\ pc' = IF reported' \in {"optimal", "feasible"} THEN "checked" ELSE "aborted"
  /\ UNCHANGED <<escalabilidad, barrido, script, data, termination, incumbent, x, y, refuel, sol>>

\* resolver_modelo_caso2: anything but optimal / feasible raises RuntimeError
resolver_modelo_caso2 ==
  /\ pc = "solved"
  /\ script = "resolver_modelo_caso2"
  /\ reported' = IF termination = "optimal" THEN "optimal"
                 ELSE IF termination = "feasible" THEN "feasible"
                 ELSE "error"
  /\ pc' = IF reported' \in {"optimal", "feasible"} THEN "checked" ELSE "aborted"
  /\ UNCHANGED <<escalabilidad, barrido, script, data, termination, incumbent, x, y, refuel, sol>>

\* generar_outputs_caso2_oficial.main: only optimal and maxTimeLimit are looked at
main_oficial ==
  /\ pc = "solved"
  /\ script = "generar_outputs_caso2_oficial"
  /\ reported' = IF termination = "optimal" THEN "optimal"
                 ELSE IF termination = "maxTimeLimit"
                      THEN (IF incumbent THEN "feasible" ELSE "no_solution")
                 ELSE "error"
  /\ pc' = IF reported' \in {"optimal", "feasible"} THEN "checked" ELSE "aborted"
  /\ UNCHANGED <<escalabilidad, barrido, script, data, termination, incumbent, x, y, refuel, sol>>

\* test_escenario only classifies the outcome; nothing is decoded
test_escenario ==
  /\ pc = "solved"
  /\ script = "test_escenario"
  /\ reported' = IF termination = "optimal" THEN "optimal"
                 ELSE IF termination = "maxTimeLimit"
                      THEN (IF incumbent THEN "feasible_time_limit" ELSE "infeasible_time_limit")
                 ELSE "infeasible"
  /\ pc' = "done"
  /\ UNCHANGED <<escalabilidad, barrido, script, data, termination, incumbent, x, y, refuel, sol>>

\* extraer_solucion_caso2.py looks at no termination condition: it evaluates the objective
\* and prints that a solution was found
script_extraer_solucion_caso2 ==
  /\ pc = "solved"
  /\ script = "extraer_solucion_caso2_py"
  /\ reported' = IF incumbent THEN "feasible" ELSE "error"
  /\ pc' = IF incumbent THEN "checked" ELSE "crashed"
  /\ UNCHANGED <<escalabilidad, barrido, script, data, termination, incumbent, x, y, refuel, sol>>

----------------------------------------------------------------------------
(* Objective functions *)

\* sum of d[i,j] * x[v,i,j] over the selected arcs
DistanciaArcos(d, xs) == SumOver([a \in xs |-> d.dist[<<a[2], a[3]>>]], xs)

\* caso 1: C_fixed * sum of y[v] + C_dist * sum of d[i,j] * x[v,i,j]
rule_funcion_objetivo(d, xs, ys) ==
  d.cost_fixed * Cardinality(ys) + d.cost_km * DistanciaArcos(d, xs)

\* fuel_scale = 1 / scale_fuel_cost of the callers of build_model_caso2
FuelScale == 1000

\* caso 2: model.fuel_price[i], the price multiplied by scale_fuel_cost = 1 / fuel_scale
init_fuel_price(d, i, fuel_scale) ==
  IF i \in Stations(d) THEN d.fuel_price[i] \div fuel_scale
  ELSE IF i = d.DEPOT
  THEN (SumOver(d.fuel_price, DOMAIN d.fuel_price) \div Cardinality(DOMAIN d.fuel_price))
          \div fuel_scale
  ELSE 1000000 \div fuel_scale

\* sum of model.fuel_price[i] * recarga[v,i] over every vehicle and node
CombustibleModelo2(d, rf, fuel_scale) ==
  SumOver([p \in Vehicles(d) \X Nodes(d) |-> init_fuel_price(d, p[2], fuel_scale) * rf[p]],
          Vehicles(d) \X Nodes(d))

\* caso 2: fixed + distance + fuel at the scaled prices
objetivo_rule_caso2(d, xs, ys, rf, fuel_scale) ==
  d.cost_fixed * Cardinality(ys) + d.cost_km * DistanciaArcos(d, xs)
     + CombustibleModelo2(d, rf, fuel_scale)

\* caso 3: fixed + distance + fuel bought at the stations + tolls of the selected arcs
objetivo_rule_caso3(d, xs, ys, rf) ==
  d.cost_fixed * Cardinality(ys) + d.cost_km * DistanciaArcos(d, xs)
     + SumOver([p \in Vehicles(d) \X Stations(d) |-> d.fuel_price[p[2]] * rf[p]],
               Vehicles(d) \X Stations(d))
     + SumOver([a \in xs |-> IF <<a[2], a[3]>> \in DOMAIN d.toll_cost
                              THEN d.toll_cost[<<a[2], a[3]>>] ELSE 0], xs)

----------------------------------------------------------------------------
(* Refuel events the extractors report *)

\* extraer_solucion_caso2: for i in ruta: if recarga[v, i] > 0.01
recargas_caso2(ruta, rf, v) ==
  {ruta[k] : k \in {n \in 1..Len(ruta) : rf[<<v, ruta[n]>>] > 0}}

\* extraer_solucion_caso3: for estacion in estaciones: if refuel[v, estacion] > 0.01
recargas_caso3(d, ruta, rf, v) ==
  {ruta[k] : k \in {n \in 1..Len(ruta) : ruta[n] \in Stations(d) /\ rf[<<v, ruta[n]>>] > 0}}

\* nodes where the extractor of script s reports a refuel of vehicle v
recargas_reportadas(s, d, ruta, rf, v) ==
  IF Caso(s) = 2 THEN recargas_caso2(ruta, rf, v)
  ELSE IF Caso(s) = 3 THEN recargas_caso3(d, ruta, rf, v)
  ELSE {}

----------------------------------------------------------------------------
(* Route decoders *)

\* safety limit of the module-level reconstruction loop: while len(ruta) < 20
LimiteSeguridad == 20

NoDepot(ruta, d) == {ruta[k] : k \in 1..Len(ruta)} \ {d.DEPOT}

RECURSIVE seguir_arcos(_, _, _, _, _)
seguir_arcos(arcos_activos, depot, ruta, nodo_actual, restantes) ==
  IF restantes = 0 THEN ruta
  ELSE IF nodo_actual \notin DOMAIN arcos_activos THEN ruta
  ELSE LET siguiente_nodo == arcos_activos[nodo_actual] IN
       IF siguiente_nodo = depot THEN Append(ruta, siguiente_nodo)
       ELSE seguir_arcos(arcos_activos, depot, Append(ruta, siguiente_nodo),
                         siguiente_nodo, restantes - 1)

\* variant of the cap that lets the loop run twice as long
max_iteraciones_doble(d) == 2 * (Len(d.NODES) + 1)

\* max_iteraciones = len(data['NODES']) + 1
max_iteraciones(d) == Len(d.NODES) + 1

\* caso 1: arcos_activos[i] = j keeps the last active arc out of i in the order of model.ARCS
reconstruir_ruta(d, xs, vehiculo) ==
  LET activos == SelectSeq(valid_arcs_init(d), LAMBDA a : a[1] = vehiculo /\ a \in xs)
      origenes == {activos[k][2] : k \in 1..Len(activos)}
      arcos_activos == [i \in origenes |->
                          activos[MaxOf({k \in 1..Len(activos) : activos[k][2] = i})][3]]
  IN IF Len(activos) = 0 THEN << >>
     ELSE seguir_arcos(arcos_activos, d.DEPOT, <<d.DEPOT>>, d.DEPOT, max_iteraciones(d))

\* distance of a route: sum of dist over its consecutive pairs
calcular_distancia_ruta(ruta, dist) ==
  SumOver([k \in 1..(Len(ruta) - 1) |-> dist[<<ruta[k], ruta[k + 1]>>]], 1..(Len(ruta) - 1))

\* caso 1: the counter grows for every used vehicle, the record is added only for a
\* non-empty route; costo_total is the value of the objective
extraer_solucion(d, xs, ys) ==
  LET conRuta == {v \in ys : reconstruir_ruta(d, xs, v) # << >>}
      rutas == [v \in conRuta |-> reconstruir_ruta(d, xs, v)]
      clientes_atendidos == UNION {NoDepot(rutas[v], d) : v \in conRuta}
      distancia_total_sistema ==
         SumOver([v \in conRuta |-> calcular_distancia_ruta(rutas[v], d.dist)], conRuta)
  IN [ rutas |-> rutas,
       num_vehiculos |-> Cardinality(ys),
       advertencias |-> IF clientes_atendidos # Clients(d)
                        THEN {"clientes_no_atendidos"} ELSE {},
       costos |-> [ costo_total |-> rule_funcion_objetivo(d, xs, ys),
                    costo_fijo |-> d.cost_fixed * Cardinality(conRuta),
                    costo_distancia |-> d.cost_km * distancia_total_sistema,
                    costo_combustible |-> 0,
                    costo_peajes |-> 0 ],
       recargas |-> [v \in conRuta |-> {}] ]

\* caso 2: first unvisited j in the order of NODES with x[v, nodo_actual, j] = 1;
\* when there is none the Depot is appended and the route is closed
RECURSIVE reconstruir_caso2(_, _, _, _, _, _)
reconstruir_caso2(d, xs, v, ruta, nodo_actual, visitados) ==
  LET cand == {k \in 1..Len(d.NODES) :
                  /\ d.NODES[k] \notin visitados
                  /\ <<v, nodo_actual, d.NODES[k]>> \in xs}
  IN IF cand = {} THEN Append(ruta, d.DEPOT)
     ELSE LET siguiente == d.NODES[MinOf(cand)] IN
          IF siguiente = d.DEPOT THEN Append(ruta, d.DEPOT)
          ELSE reconstruir_caso2(d, xs, v, Append(ruta, siguiente), siguiente,
                                 visitados \cup {siguiente})

\* costo_combustible is multiplied back by fuel_scale; costo_total is the value of the
\* objective
extraer_solucion_caso2(d, xs, ys, rf, fuel_scale) ==
  [ rutas |-> [v \in ys |-> reconstruir_caso2(d, xs, v, <<d.DEPOT>>, d.DEPOT, {d.DEPOT})],
    num_vehiculos |-> Cardinality(ys),
    advertencias |-> {},
    costos |-> [ costo_total |-> objetivo_rule_caso2(d, xs, ys, rf, fuel_scale),
                 costo_fijo |-> d.cost_fixed * Cardinality(ys),
                 costo_distancia |-> d.cost_km * DistanciaArcos(d, xs),
                 costo_combustible |-> CombustibleModelo2(d, rf, fuel_scale) * fuel_scale,
                 costo_peajes |-> 0 ],
    recargas |-> [v \in ys |->
                    recargas_caso2(reconstruir_caso2(d, xs, v, <<d.DEPOT>>, d.DEPOT, {d.DEPOT}),
                                   rf, v)] ]

\* index of the first active arc out of nodo_actual whose head is unvisited or the Depot
PrimerArco(arcos, depot, nodo_actual, visitados) ==
  {k \in 1..Len(arcos) :
      /\ arcos[k][1] = nodo_actual
      /\ (arcos[k][2] \notin visitados \/ arcos[k][2] = depot)}

\* caso 3: at most len(arcos_activos) + 1 steps; a node without a usable arc ends the loop
RECURSIVE reconstruir_caso3(_, _, _, _, _, _)
reconstruir_caso3(arcos, depot, ruta, nodo_actual, visitados, restantes) ==
  IF restantes = 0 THEN ruta
  ELSE LET cand == PrimerArco(arcos, depot, nodo_actual, visitados) IN
       IF cand = {} THEN ruta
       ELSE LET siguiente == arcos[MinOf(cand)][2] IN
            IF siguiente = depot THEN Append(ruta, siguiente)
            ELSE reconstruir_caso3(arcos, depot, Append(ruta, siguiente), siguiente,
                                   visitados \cup {siguiente}, restantes - 1)

arcos_activos_caso3(d, xs, v) ==
  SelectSeq(arcos_validos_por_vehiculo(d, v), LAMBDA a : <<v, a[1], a[2]>> \in xs)

ruta_caso3(d, xs, v) ==
  reconstruir_caso3(arcos_activos_caso3(d, xs, v), d.DEPOT, <<d.DEPOT>>, d.DEPOT, {d.DEPOT},
                    Len(arcos_activos_caso3(d, xs, v)) + 1)

\* fuel bought by v at the stations of its route where refuel[v, estacion] > 0.01
costo_comb(d, ruta, rf, v) ==
  LET estaciones == {ruta[k] : k \in 1..Len(ruta)} \cap Stations(d)
      recargas_v == {s \in estaciones : rf[<<v, s>>] > 0}
  IN SumOver([s \in recargas_v |-> d.fuel_price[s] * rf[<<v, s>>]], recargas_v)

\* tolls of the consecutive pairs of the route
costo_peaj(d, ruta) ==
  LET peajes_v == {k \in 1..(Len(ruta) - 1) : <<ruta[k], ruta[k + 1]>> \in DOMAIN d.toll_cost}
  IN SumOver([k \in peajes_v |-> d.toll_cost[<<ruta[k], ruta[k + 1]>>]], peajes_v)

\* every cost of caso 3 is recomputed from the decoded routes
extraer_solucion_caso3(d, xs, ys, rf) ==
  LET rutas == [v \in ys |-> ruta_caso3(d, xs, v)]
      fijo == d.cost_fixed * Cardinality(ys)
      distancia == SumOver([v \in ys |-> calcular_distancia_ruta(rutas[v], d.dist) * d.cost_km],
                           ys)
      combustible == SumOver([v \in ys |-> costo_comb(d, rutas[v], rf, v)], ys)
      peajes == SumOver([v \in ys |-> costo_peaj(d, rutas[v])], ys)
  IN [ rutas |-> rutas,
       num_vehiculos |-> Cardinality(ys),
       advertencias |-> IF ys = {} THEN {"ningun_vehiculo"} ELSE {},
       costos |-> [ costo_total |-> fijo + distancia + combustible + peajes,
                    costo_fijo |-> fijo,
                    costo_distancia |-> distancia,
                    costo_combustible |-> combustible,
                    costo_peajes |-> peajes ],
       recargas |-> [v \in ys |-> recargas_caso3(d, rutas[v], rf, v)] ]

ParesDe(ruta) == {<<ruta[k], ruta[k + 1]>> : k \in 1..(Len(ruta) - 1)}

\* errors found by validar_solucion on an extracted caso 3 solution
validar_solucion(solucion, d) ==
  LET usados == DOMAIN solucion.rutas
      servidos == UNION {NoDepot(solucion.rutas[v], d) \cap Clients(d) : v \in usados}
  IN   (IF servidos # Clients(d) THEN {"clientes_no_servidos"} ELSE {})
  \cup (IF \E v \in usados : ParesDe(solucion.rutas[v]) \cap d.FORBIDDEN_ARCS # {}
        THEN {"arco_prohibido"} ELSE {})
  \cup (IF \E v \in usados : ParesDe(solucion.rutas[v]) \cap d.RESTRICTED_ARCS[v] # {}
        THEN {"arco_restringido"} ELSE {})
  \cup (IF \E v \in usados : \E nodo \in solucion.recargas[v] :
              nodo \notin Stations(d) /\ nodo # d.DEPOT
        THEN {"recarga_invalida"} ELSE {})

\* extraer_solucion_caso2.py: arcs per vehicle in node order, loop while len(ruta) < 20
RECURSIVE reconstruir_script(_, _, _, _, _)
reconstruir_script(arcos_v, depot, ruta, nodo_actual, visitados) ==
  IF Len(ruta) >= LimiteSeguridad THEN ruta
  ELSE LET cand == PrimerArco(arcos_v, depot, nodo_actual, visitados) IN
       IF cand = {} THEN ruta
       ELSE LET siguiente == arcos_v[MinOf(cand)][2] IN
            IF siguiente = depot THEN Append(ruta, siguiente)
            ELSE reconstruir_script(arcos_v, depot, Append(ruta, siguiente), siguiente,
                                    visitados \cup {siguiente})

ruta_script(d, xs, v) ==
  reconstruir_script(SelectSeq(PairsInOrder(d.NODES), LAMBDA a : <<v, a[1], a[2]>> \in xs),
                     d.DEPOT, <<d.DEPOT>>, d.DEPOT, {d.DEPOT})

\* vehicles without active arcs are skipped; a route is kept only if len(ruta) > 2
rutas_por_vehiculo(d, xs) ==
  LET conArcos == {v \in Vehicles(d) : \E a \in xs : a[1] = v}
      guardados == {v \in conArcos : Len(ruta_script(d, xs, v)) > 2}
  IN [v \in guardados |-> ruta_script(d, xs, v)]

----------------------------------------------------------------------------
(* Number of passes through the reconstruction loop of each decoder *)

\* the dictionary reconstruir_ruta builds for one vehicle
arcos_activos_caso1(d, xs, vehiculo) ==
  LET activos == SelectSeq(valid_arcs_init(d), LAMBDA a : a[1] = vehiculo /\ a \in xs)
      origenes == {activos[k][2] : k \in 1..Len(activos)}
  IN [i \in origenes |-> activos[MaxOf({k \in 1..Len(activos) : activos[k][2] = i})][3]]

\* caso 1: for _ in range(max_iteraciones); a pass that breaks counts as a pass
RECURSIVE pasos_caso1(_, _, _, _)
pasos_caso1(arcos_activos, depot, nodo_actual, restantes) ==
  IF restantes = 0 THEN 0
  ELSE IF nodo_actual \notin DOMAIN arcos_activos THEN 1
  ELSE IF arcos_activos[nodo_actual] = depot THEN 1
  ELSE 1 + pasos_caso1(arcos_activos, depot, arcos_activos[nodo_actual], restantes - 1)

\* caso 2: while True, left only through the break
RECURSIVE pasos_caso2(_, _, _, _, _)
pasos_caso2(d, xs, v, nodo_actual, visitados) ==
  LET cand == {k \in 1..Len(d.NODES) :
                  /\ d.NODES[k] \notin visitados
                  /\ <<v, nodo_actual, d.NODES[k]>> \in xs}
  IN IF cand = {} THEN 1
     ELSE IF d.NODES[MinOf(cand)] = d.DEPOT THEN 1
     ELSE 1 + pasos_caso2(d, xs, v, d.NODES[MinOf(cand)],
                          visitados \cup {d.NODES[MinOf(cand)]})

\* caso 3: while iteracion < max_iteraciones, max_iteraciones = len(arcos_activos[v]) + 1
RECURSIVE pasos_caso3(_, _, _, _, _)
pasos_caso3(arcos, depot, nodo_actual, visitados, restantes) ==
  IF restantes = 0 THEN 0
  ELSE LET cand == PrimerArco(arcos, depot, nodo_actual, visitados) IN
       IF cand = {} THEN 1
       ELSE IF arcos[MinOf(cand)][2] = depot THEN 1
       ELSE 1 + pasos_caso3(arcos, depot, arcos[MinOf(cand)][2],
                            visitados \cup {arcos[MinOf(cand)][2]}, restantes - 1)

\* passes of the loop that rebuilds the route of vehicle v in the extractor of script s
pasos_reconstruccion(s, d, xs, v) ==
  IF Caso(s) = 1
  THEN IF DOMAIN arcos_activos_caso1(d, xs, v) = {} THEN 0
       ELSE pasos_caso1(arcos_activos_caso1(d, xs, v), d.DEPOT, d.DEPOT, max_iteraciones(d))
  ELSE IF Caso(s) = 2
  THEN pasos_caso2(d, xs, v, d.DEPOT, {d.DEPOT})
  ELSE pasos_caso3(arcos_activos_caso3(d, xs, v), d.DEPOT, d.DEPOT, {d.DEPOT},
                   Len(arcos_activos_caso3(d, xs, v)) + 1)

----------------------------------------------------------------------------
(* Extraction step of each entry point *)

extraer_run_caso1 ==
  /\ pc = "checked"
  /\ script = "run_caso1"
  /\ sol' = extraer_solucion(data, x, y)
  /\ pc' = "extracted"
  /\ UNCHANGED <<escalabilidad, barrido, script, data, termination, incumbent, x, y, refuel, reported>>

\* run_caso2 and resolver_modelo_caso2 both call extraer_solucion_caso2(model, data2)
extraer_caso2 ==
  /\ pc = "checked"
  /\ script \in {"run_caso2", "resolver_modelo_caso2"}
  /\ sol' = extraer_solucion_caso2(data, x, y, refuel, FuelScale)
  /\ pc' = "extracted"
  /\ UNCHANGED <<escalabilidad, barrido, script, data, termination, incumbent, x, y, refuel, reported>>

\* run_caso3 extracts, validates (a failed validation is only a warning) and writes outputs
extraer_run_caso3 ==
  /\ pc = "checked"
  /\ script = "run_caso3"
  /\ sol' = [extraer_solucion_caso3(data, x, y, refuel) EXCEPT
               !.advertencias =
                  @ \cup validar_solucion(extraer_solucion_caso3(data, x, y, refuel), data)]
  /\ pc' = "extracted"
  /\ UNCHANGED <<escalabilidad, barrido, script, data, termination, incumbent, x, y, refuel, reported>>

\* extraer_solucion_caso2.py exits when there is no active arc or no route was kept
extraer_script ==
  /\ pc = "checked"
  /\ script = "extraer_solucion_caso2_py"
  /\ IF x = {} \/ DOMAIN rutas_por_vehiculo(data, x) = {}
     THEN /\ sol' = NoSol
          /\ pc' = "aborted"
     ELSE /\ sol' = [ rutas |-> rutas_por_vehiculo(data, x),
                      num_vehiculos |-> Cardinality(DOMAIN rutas_por_vehiculo(data, x)),
                      advertencias |-> {},
                      costos |-> [SinCostos EXCEPT
                         !.costo_total = objetivo_rule_caso2(data, x, y, refuel, FuelScale)],
                      recargas |-> [v \in DOMAIN rutas_por_vehiculo(data, x) |-> {}] ]
          /\ pc' = "extracted"
  /\ UNCHANGED <<escalabilidad, barrido, script, data, termination, incumbent, x, y, refuel, reported>>

\* extraer_solucion_completa of generar_outputs_caso2_oficial reads model.NODES, a component
\* build_model_caso2 never defines, so the call raises before any route is built
extraer_oficial ==
  /\ pc = "checked"
  /\ script = "generar_outputs_caso2_oficial"
  /\ sol' = NoSol
  /\ pc' = "crashed"
  /\ UNCHANGED <<escalabilidad, barrido, script, data, termination, incumbent, x, y, refuel, reported>>

----------------------------------------------------------------------------
(* analisis_caso3: sensitivity of the solution to the fuel prices *)

\* variaciones = [-20, -10, 0, 10, 20], in percent
variaciones == <<-20, -10, 0, 10, 20>>

\* variant that applies the variation to the prices of the variation before
fuel_price_acumulado(d, var) ==
  LET previo == IF barrido.k = 0 THEN d.fuel_price ELSE barrido.fuel_price
  IN [s \in DOMAIN d.fuel_price |-> (previo[s] * (100 + var)) \div 100]

\* {s: p * (1 + var/100) for s, p in data3['fuel_price'].items()}
fuel_price_mod(d, var) ==
  [s \in DOMAIN d.fuel_price |-> (d.fuel_price[s] * (100 + var)) \div 100]

\* one pass of the loop over variaciones: a copy of data3 gets the modified prices, the
\* model of the copy is built and solved, and a result row is added only when the solver
\* ends optimal or feasible
sensibilidad_variacion ==
  /\ pc = "sensibilidad"
  /\ barrido.k < Len(variaciones)
  /\ LET var == variaciones[barrido.k + 1]
         data_modificada == [data EXCEPT !.fuel_price = fuel_price_mod(data, var)]
     IN \/ /\ \E a \in Asignaciones(script, data_modificada) :
                  /\ x' = a[1]
                  /\ y' = a[2]
                  /\ refuel' = a[3]
           /\ termination' \in {"optimal", "feasible"}
           /\ incumbent' = TRUE
           /\ sol' = extraer_solucion_caso3(data_modificada, x', y', refuel')
           /\ barrido' = [ k |-> barrido.k + 1,
                           fuel_price |-> data_modificada.fuel_price,
                           resultados |-> Append(barrido.resultados,
                              [ Variacion |-> var,
                                Costo_Total |-> sol'.costos.costo_total,
                                Costo_Combustible |-> sol'.costos.costo_combustible,
                                Num_Vehiculos |-> sol'.num_vehiculos ]) ]
        \/ /\ termination' \in {"maxTimeLimit", "infeasible"}
           /\ termination' = "infeasible" => ~Factible(script, data_modificada)
           /\ incumbent' = FALSE
           /\ x' = {}
           /\ y' = {}
           /\ refuel' = SinRecarga(data)
           /\ sol' = NoSol
           /\ barrido' = [barrido EXCEPT !.k = @ + 1,
                                         !.fuel_price = data_modificada.fuel_price]
  /\ UNCHANGED <<escalabilidad, script, data, pc, reported>>

\* after the loop: None when no variation gave a result, the charts otherwise
sensibilidad_fin ==
  /\ pc = "sensibilidad"
  /\ barrido.k = Len(variaciones)
  /\ reported' = IF barrido.resultados = << >> THEN "sin_resultados" ELSE "sensibilidad_generada"
  /\ pc' = "done"
  /\ UNCHANGED <<escalabilidad, script, data, termination, incumbent, x, y, refuel, sol, barrido>>

----------------------------------------------------------------------------
(* test_escalabilidad_caso2 and the scenario chosen from its results file *)

\* escenarios = [2, 4, 6, 8, 10, 12, 14]
escenarios == <<2, 4, 6, 8, 10, 12, 14>>

\* the status texts test_escenario writes, letter by letter
StatusTexto ==
  [ optimal |-> <<"o", "p", "t", "i", "m", "a", "l">>,
    feasible_time_limit |-> <<"f", "e", "a", "s", "i", "b", "l", "e", "_", "t", "i", "m", "e",
                              "_", "l", "i", "m", "i", "t">>,
    infeasible_time_limit |-> <<"i", "n", "f", "e", "a", "s", "i", "b", "l", "e", "_", "t", "i",
                                "m", "e", "_", "l", "i", "m", "i", "t">>,
    infeasible |-> <<"i", "n", "f", "e", "a", "s", "i", "b", "l", "e">>,
    infeasible_capacity |-> <<"i", "n", "f", "e", "a", "s", "i", "b", "l", "e", "_", "c", "a",
                              "p", "a", "c", "i", "t", "y">> ]

\* aguja in texto
Contiene(aguja, texto) ==
  \E k \in 0..(Len(texto) - Len(aguja)) : SubSeq(texto, k + 1, k + Len(aguja)) = aguja

\* one scenario of the loop of main: the capacity check, or the outcome of the solver
escalabilidad_escenario ==
  /\ pc = "escalabilidad"
  /\ Len(escalabilidad.resultados) < Len(escenarios)
  /\ \E status \in DOMAIN StatusTexto :
        /\ (/\ escalabilidad.resultados # << >>
            /\ escalabilidad.resultados[Len(escalabilidad.resultados)].status
                  = "infeasible_capacity")
              => status = "infeasible_capacity"
        /\ escalabilidad' =
              [escalabilidad EXCEPT !.resultados =
                 Append(@, [ n_clientes |-> escenarios[Len(@) + 1],
                             status |-> status,
                             solvable |-> status \in {"optimal", "feasible_time_limit"} ])]
  /\ UNCHANGED <<script, data, pc, termination, incumbent, x, y, refuel, reported, sol, barrido>>

\* lines written for one result: "Escenario: n clientes", "  Status: ..." and the figures
LineasDe(r) ==
  << [clase |-> "Escenario", n |-> r.n_clientes, texto |-> << >>],
     [clase |-> "Status", n |-> 0, texto |-> StatusTexto[r.status]],
     [clase |-> "otra", n |-> 0, texto |-> << >>] >>

RECURSIVE LineasArchivo(_)
LineasArchivo(resultados) ==
  IF resultados = << >> THEN << >>
  ELSE LineasDe(Head(resultados)) \o LineasArchivo(Tail(resultados))

\* main, after the last scenario: the results are written to test_escalabilidad_resultados.txt
escalabilidad_guardar ==
  /\ pc = "escalabilidad"
  /\ Len(escalabilidad.resultados) = Len(escenarios)
  /\ escalabilidad' = [escalabilidad EXCEPT
        !.archivo = <<[clase |-> "otra", n |-> 0, texto |-> << >>]>>
                       \o LineasArchivo(escalabilidad.resultados),
        !.existe = TRUE]
  /\ pc' = "guardado"
  /\ UNCHANGED <<script, data, termination, incumbent, x, y, refuel, reported, sol, barrido>>

\* the loop over the lines: n is the count of the last "Escenario:" line, and a "Status:"
\* line raises max_factible when its text holds 'optimal' or 'feasible'
RECURSIVE leer_lineas(_, _, _)
leer_lineas(lineas, n, max_factible) ==
  IF lineas = << >> THEN max_factible
  ELSE LET linea == Head(lineas) IN
       IF linea.clase = "Escenario" THEN leer_lineas(Tail(lineas), linea.n, max_factible)
       ELSE IF linea.clase = "Status"
       THEN IF \/ Contiene(<<"o", "p", "t", "i", "m", "a", "l">>, linea.texto)
               \/ Contiene(<<"f", "e", "a", "s", "i", "b", "l", "e">>, linea.texto)
            THEN leer_lineas(Tail(lineas), n, IF n > max_factible THEN n ELSE max_factible)
            ELSE leer_lineas(Tail(lineas), n, max_factible)
       ELSE leer_lineas(Tail(lineas), n, max_factible)

\* largest scenario of the file taken as solved; 6 when there is no file
determinar_escenario_factible ==
  /\ pc \in {"escalabilidad", "guardado"}
  /\ escalabilidad' = [escalabilidad EXCEPT !.max_factible =
        IF ~escalabilidad.existe THEN 6 ELSE leer_lineas(escalabilidad.archivo, 0, 2)]
  /\ pc' = "determinado"
  /\ UNCHANGED <<script, data, termination, incumbent, x, y, refuel, reported, sol, barrido>>

----------------------------------------------------------------------------
(* Specifications *)

Next ==
  \/ Solve
  \/ SolveNoIncumbent
  \/ SolveRaises
  \/ main_run_caso1
  \/ main_run_caso2
  \/ main_run_caso3
  \/ resolver_modelo_caso2
  \/ main_oficial
  \/ test_escenario
  \/ script_extraer_solucion_caso2
  \/ extraer_run_caso1
  \/ extraer_caso2
  \/ extraer_run_caso3
  \/ extraer_script
  \/ extraer_oficial

Spec == Init /\ [][Next]_vars

\* Decoder specification: the extractors are handed a model whose x and y hold ANY values
\* (not necessarily a feasible assignment), as a decoder contract must assume.
DecodeScripts == {"run_caso1", "run_caso2", "extraer_solucion_caso2_py", "run_caso3"}

InitDecode ==
  /\ script \in DecodeScripts
  /\ \E raw \in RawInputs : data = cargar_datos(script, raw)
  /\ pc = "checked"
  /\ termination = "optimal"
  /\ incumbent = TRUE
  /\ x \in SUBSET XIndex(script, data)
  /\ y \in SUBSET Vehicles(data)
  /\ refuel = SinRecarga(data)
  /\ reported = "optimal"
  /\ sol = NoSol
  /\ barrido = SinBarrido
  /\ escalabilidad = SinEscalabilidad

NextDecode ==
  \/ extraer_run_caso1
  \/ extraer_caso2
  \/ extraer_run_caso3
  \/ extraer_script

SpecDecode == InitDecode /\ [][NextDecode]_vars


\* the solver call of the entry points of the three formulations on fleet data
FleetScripts == {"run_caso1", "run_caso2", "run_caso3"}

InitFleet ==
  /\ script \in FleetScripts
  /\ data = cargar_datos(script, RawFleet)
  /\ pc = "built"
  /\ termination = "none"
  /\ incumbent = FALSE
  /\ x = {}
  /\ y = {}
  /\ refuel = SinRecarga(data)
  /\ reported = "none"
  /\ sol = NoSol
  /\ barrido = SinBarrido
  /\ escalabilidad = SinEscalabilidad

NextFleet ==
  \/ Solve
  \/ SolveNoIncumbent
  \/ SolveRaises

SpecFleet == InitFleet /\ [][NextFleet]_vars

\* instances whose base model main solved before it starts the sweep
SweepInputs == {RawFuelNoStation, RawFuelStation}

\* the price sweep of analisis_caso3 on the data its main loaded
InitSweep ==
  /\ script = "analisis_caso3"
  /\ \E raw \in SweepInputs : data = cargar_datos(script, raw)
  /\ pc = "sensibilidad"
  /\ termination = "none"
  /\ incumbent = FALSE
  /\ x = {}
  /\ y = {}
  /\ refuel = SinRecarga(data)
  /\ reported = "none"
  /\ sol = NoSol
  /\ barrido = SinBarrido
  /\ escalabilidad = SinEscalabilidad

NextSweep ==
  \/ sensibilidad_variacion
  \/ sensibilidad_fin

SpecSweep == InitSweep /\ [][NextSweep]_vars

\* test_escalabilidad_caso2 followed by generar_outputs_escenario_factible
InitEscalabilidad ==
  /\ script = "test_escalabilidad_caso2"
  /\ data = cargar_datos(script, RawFuelStation)
  /\ pc = "escalabilidad"
  /\ termination = "none"
  /\ incumbent = FALSE
  /\ x = {}
  /\ y = {}
  /\ refuel = SinRecarga(data)
  /\ reported = "none"
  /\ sol = NoSol
  /\ barrido = SinBarrido
  /\ escalabilidad = SinEscalabilidad

NextEscalabilidad ==
  \/ escalabilidad_escenario
  \/ escalabilidad_guardar
  \/ determinar_escenario_factible

SpecEscalabilidad == InitEscalabilidad /\ [][NextEscalabilidad]_vars

----------------------------------------------------------------------------
(* Properties *)

\* what the properties read from an extracted solution
Registrados == DOMAIN sol.rutas
Ruta(v) == sol.rutas[v]

\* arcs the solver selected for vehicle v, as node pairs
Seleccionados(v) == {<<a[2], a[3]>> : a \in {b \in x : b[1] = v}}

\* number of positions of the route that hold node n
Apariciones(ruta, n) == Cardinality({k \in 1..Len(ruta) : ruta[k] = n})

AparicionesEnRutas(n) ==
  SumOver([v \in Registrados |-> Apariciones(Ruta(v), n)], Registrados)

\* sum of the demands of the clients at the positions of the route
DemandaEnRuta(ruta) ==
  LET pos == {k \in 1..Len(ruta) : ruta[k] \in Clients(data)} IN
  SumOver([k \in pos |-> data.demanda[ruta[k]]], pos)

\* fuel level on arrival at position k, starting from a full tank at the Depot
RECURSIVE NivelSimulado(_, _)
NivelSimulado(v, k) ==
  IF k = 1 THEN data.fuel_cap[v]
  ELSE NivelSimulado(v, k - 1) - data.consumo[<<Ruta(v)[k - 1], Ruta(v)[k]>>]
          + refuel[<<v, Ruta(v)[k]>>]

\* the route starts and ends at the Depot and no intermediate node occurs twice
Cerrada(ruta) ==
  /\ Len(ruta) >= 2
  /\ ruta[1] = data.DEPOT
  /\ ruta[Len(ruta)] = data.DEPOT
  /\ \A k \in 2..(Len(ruta) - 1) : Apariciones(ruta, ruta[k]) = 1

\* the node at which the walk of vehicle v stopped: the last node reached through the
\* decoder's own steps (caso 2 appends the Depot after it)
UltimoAlcanzado(v) ==
  IF Caso(script) = 2 /\ script # "extraer_solucion_caso2_py"
  THEN Ruta(v)[Len(Ruta(v)) - 1]
  ELSE Ruta(v)[Len(Ruta(v))]

\* the walk of v stopped at a non-Depot node that has no selected outgoing arc
Colgante(v) ==
  /\ UltimoAlcanzado(v) # data.DEPOT
  /\ ~ \E a \in x : a[1] = v /\ a[2] = UltimoAlcanzado(v)

FunctionDecoders == {"run_caso1", "run_caso2", "run_caso3"}

\* C1 (Coverage): after a feasible assignment is decoded by the matching extractor, every
\* client of the input appears exactly once over all decoded routes.
C1_Coverage ==
  (pc = "extracted") => \A c \in Clients(data) : AparicionesEnRutas(c) = 1

\* C2 (Capacity): for every decoded route of a feasible assignment, the demands of the
\* clients on the route add up to at most the load capacity of its vehicle.
C2_Capacity ==
  (pc = "extracted") => \A v \in Registrados : DemandaEnRuta(Ruta(v)) <= data.load_cap[v]

\* C3 (Fuel non-negativity): for caso 2 and caso 3, the fuel level simulated along every
\* decoded route from a full tank stays between zero and the tank capacity.
C3_FuelWithinTank ==
  (pc = "extracted" /\ Caso(script) \in {2, 3}) =>
     \A v \in Registrados : \A k \in 1..Len(Ruta(v)) :
        NivelSimulado(v, k) >= 0 /\ NivelSimulado(v, k) <= data.fuel_cap[v]

\* C4 (Closure): whatever arcs are selected, every route that reconstruir_ruta,
\* extraer_solucion_caso2 or extraer_solucion_caso3 returns with no anomaly reported starts
\* at the Depot, ends at the Depot and repeats no intermediate node.
C4_Closure ==
  (pc = "extracted" /\ script \in FunctionDecoders /\ sol.advertencias = {}) =>
     \A v \in Registrados : Cerrada(Ruta(v))

\* C5 (Restriction respect): with caso 3 data, no x[v,i,j] exists for an arc that is
\* forbidden or restricted for v, and no decoded route of v holds such an arc as a
\* consecutive pair.
C5_RestrictionRespect ==
  (Caso(script) = 3) =>
     /\ \A t \in x_index_set(data) :
           <<t[2], t[3]>> \notin (data.FORBIDDEN_ARCS \cup data.RESTRICTED_ARCS[t[1]])
     /\ (pc = "extracted") =>
           \A v \in Registrados :
              ParesDe(Ruta(v)) \cap (data.FORBIDDEN_ARCS \cup data.RESTRICTED_ARCS[v]) = {}

\* a caso 3 run on data with file, scenario and per-vehicle restrictions decoded a route
\* for a vehicle that has restricted arcs
C5_Witness ==
  /\ Caso(script) = 3
  /\ pc = "extracted"
  /\ <<"B", "A">> \in data.FORBIDDEN_ARCS
  /\ <<"A", "B">> \in data.FORBIDDEN_ARCS
  /\ \E v \in Registrados : data.RESTRICTED_ARCS[v] # {} /\ Len(Ruta(v)) >= 3

\* C6 (Dangling route): when the reconstruction for a used vehicle stops at a non-Depot
\* node without a selected outgoing arc, the decoder reports an anomaly.
C6_DanglingReported ==
  (pc = "extracted" /\ script \in FunctionDecoders) =>
     \A v \in Registrados : Colgante(v) => sol.advertencias # {}

\* C7 (No guessed path): every consecutive pair of an emitted route is an arc selected for
\* that vehicle, and a route is emitted only when it is a clean Depot-to-Depot path.
C7_NoGuessedPath ==
  (pc = "extracted") =>
     \A v \in Registrados : ParesDe(Ruta(v)) \subseteq Seleccionados(v) /\ Cerrada(Ruta(v))

\* C8 (No silent omission): every vehicle with y[v] = 1 has a record in the extracted
\* solution and the number of records equals the reported number of used vehicles.
C8_NoSilentOmission ==
  (pc = "extracted") =>
     y \subseteq Registrados /\ Cardinality(Registrados) = sol.num_vehiculos

\* C9 (Timeout is not success): in run_caso1, run_caso2 and run_caso3, after the solver hit
\* the time limit without an incumbent nothing is extracted and no success is reported.
C9_TimeoutNotSuccess ==
  (script \in {"run_caso1", "run_caso2", "run_caso3"}
      /\ termination = "maxTimeLimit" /\ ~incumbent) =>
     pc # "extracted" /\ reported \notin {"optimal", "feasible"}

\* C10 (Feasible-with-gap accepted): once the outcome is classified, an assignment returned
\* with termination feasible, or at the time limit with an incumbent, counts as a feasible
\* solution and the run goes on to decode it: never an error, infeasible or no solution.
C10_FeasibleAccepted ==
  (pc \notin {"built", "solved"} /\ incumbent /\ termination \in {"feasible", "maxTimeLimit"}) =>
     /\ reported \in {"feasible", "feasible_time_limit"}
     /\ pc \notin {"aborted", "crashed"}


\* C11 (Decoder termination): whatever arcs are selected, the loop that rebuilds the route
\* of a used vehicle in reconstruir_ruta, extraer_solucion_caso2 and
\* extraer_solucion_caso3 makes at most |NODES| + 1 passes.
C11_DecoderTermination ==
  (pc = "extracted" /\ script \in FunctionDecoders) =>
     \A v \in y : pasos_reconstruccion(script, data, x, v) <= Len(data.NODES) + 1

\* a caso 1 decode of arcs that cycle between two clients ran into the cap
C11_Witness ==
  /\ pc = "extracted"
  /\ script = "run_caso1"
  /\ \E v \in y :
        /\ {<<v, "D", "A">>, <<v, "A", "B">>, <<v, "B", "A">>} \subseteq x
        /\ pasos_reconstruccion(script, data, x, v) = Len(data.NODES) + 1
        /\ Len(Ruta(v)) = Len(data.NODES) + 2


\* a non-Depot node stands at two positions of the route
RepiteNodo(ruta) ==
  \E i, j \in 1..Len(ruta) : i < j /\ ruta[i] = ruta[j] /\ ruta[i] # data.DEPOT

\* some non-Depot node of the route of v has selected arcs, and all of them lead to
\* non-Depot nodes that stand earlier on the route
VuelveAVisitado(v) ==
  \E k \in 1..Len(Ruta(v)) :
     LET siguientes == {j \in Nodes(data) : <<v, Ruta(v)[k], j>> \in x}
     IN /\ Ruta(v)[k] # data.DEPOT
        /\ siguientes # {}
        /\ siguientes \subseteq {Ruta(v)[i] : i \in 1..(k - 1)} \ {data.DEPOT}

\* C12 (Cycle handling): when the selected arcs lead the reconstruction back to a visited
\* non-Depot node, the cycle is reported and the route stops at the repeat point: no
\* non-Depot node is on a returned route twice.
C12_CycleHandling ==
  (pc = "extracted" /\ script \in FunctionDecoders) =>
     \A v \in Registrados :
        /\ ~RepiteNodo(Ruta(v))
        /\ VuelveAVisitado(v) => "ciclo" \in sol.advertencias


\* positions in NODES of the nodes that vehicle v has a selected arc to from node n
SalidasSeleccionadas(v, n) ==
  {i \in 1..Len(data.NODES) : <<v, n, data.NODES[i]>> \in x}

\* C13 (Tie-break): where a node of a route has several selected outgoing arcs of the
\* vehicle, the route continues with the first of them in the order of NODES and a
\* warning is recorded.
C13_TieBreak ==
  (pc = "extracted" /\ script \in FunctionDecoders) =>
     \A v \in Registrados : \A k \in 1..(Len(Ruta(v)) - 1) :
        Cardinality(SalidasSeleccionadas(v, Ruta(v)[k])) > 1 =>
           /\ Ruta(v)[k + 1] = data.NODES[MinOf(SalidasSeleccionadas(v, Ruta(v)[k]))]
           /\ "varios_arcos" \in sol.advertencias


\* the solver returned an assignment of the formulation that the entry point built
Asignado == incumbent /\ pc # "built"

\* C14 (Flow conservation): in every assignment the solver returns, each vehicle has as
\* many selected arcs into a non-Depot node, client or station, as out of it.
C14_FlowConservation ==
  Asignado =>
     \A v \in Vehicles(data) : \A n \in Nodes(data) \ {data.DEPOT} :
        Entrada(x, v, n) = Salida(x, v, n)


\* the selected arcs of v hold a cycle among the non-Depot nodes: a non-empty set of
\* them in which every node has a selected arc to a node of the set
CicloSinDeposito(v) ==
  \E ciclo \in SUBSET (Nodes(data) \ {data.DEPOT}) :
     /\ ciclo # {}
     /\ \A n \in ciclo : \E k \in ciclo : <<v, n, k>> \in x

\* C15 (Subtour elimination): in every assignment the solver returns, no vehicle's
\* selected arcs hold a cycle that avoids the Depot, be it of clients, stations or both.
C15_SubtourElimination ==
  Asignado => \A v \in Vehicles(data) : ~CicloSinDeposito(v)


\* C16 (Activation): in every assignment the solver returns, a vehicle with y[v] = 0 has
\* no selected arc at all.
C16_Activation ==
  Asignado => \A v \in Vehicles(data) \ y : \A a \in x : a[1] # v


\* C17 (Depot flow): in every assignment the solver returns, a vehicle with y[v] = 1 has
\* exactly one selected arc out of the Depot and exactly one into it, and a vehicle with
\* y[v] = 0 has none.
C17_DepotFlow ==
  Asignado =>
     \A v \in Vehicles(data) :
        /\ Salida(x, v, data.DEPOT) = (IF v \in y THEN 1 ELSE 0)
        /\ Entrada(x, v, data.DEPOT) = (IF v \in y THEN 1 ELSE 0)

\* the solver returned an assignment that uses one vehicle and leaves another one unused
C17_Witness ==
  /\ Asignado
  /\ \E v \in y : Salida(x, v, data.DEPOT) = 1 /\ Entrada(x, v, data.DEPOT) = 1
  /\ \E v \in Vehicles(data) \ y : Salida(x, v, data.DEPOT) = 0 /\ Entrada(x, v, data.DEPOT) = 0


\* C18 (Used means serving): in every assignment the solver returns, every vehicle with
\* y[v] = 1 has a selected arc into at least one client.
C18_UsedMeansServing ==
  Asignado => \A v \in y : \E c \in Clients(data) : Entrada(x, v, c) >= 1


\* nodes that are neither a station nor the Depot
SinSurtidor == Nodes(data) \ (Stations(data) \cup {data.DEPOT})

\* C19 (Refuel locality): in every assignment the solver returns for build_model_caso2 or
\* build_model_caso3 the refuel amount is 0 at every node that is neither a station nor
\* the Depot, and extraer_solucion_caso2 and extraer_solucion_caso3 report no refuel at
\* such a node.
C19_RefuelLocality ==
  (Asignado /\ Caso(script) \in {2, 3}) =>
     /\ \A v \in Vehicles(data) : \A n \in SinSurtidor : refuel[<<v, n>>] = 0
     /\ (pc = "extracted" /\ script \in FunctionDecoders) =>
           \A v \in Registrados :
              recargas_reportadas(script, data, Ruta(v), refuel, v) \cap SinSurtidor = {}

\* an extracted route that visits a client reports a refuel at one of its stations
C19_Witness ==
  /\ Asignado
  /\ pc = "extracted"
  /\ script \in FunctionDecoders
  /\ \E v \in Registrados :
        /\ \E k \in 1..Len(Ruta(v)) : Ruta(v)[k] \in SinSurtidor
        /\ recargas_reportadas(script, data, Ruta(v), refuel, v) \cap Stations(data) # {}


\* length of a route: the distances of its consecutive pairs added up
RECURSIVE DistanciaRuta(_, _)
DistanciaRuta(ruta, k) ==
  IF k >= Len(ruta) THEN 0
  ELSE data.dist[<<ruta[k], ruta[k + 1]>>] + DistanciaRuta(ruta, k + 1)

\* C20 (Two-client scenario): on the data with clients A (demand 10) and B (demand 15),
\* one vehicle of capacity 30, ample fuel and every distance 5, the constraints of each
\* formulation are satisfiable and every assignment the solver returns decodes to the one
\* route D-A-B-D or D-B-A-D, of length 15, with one vehicle used.
C20_TwoClientScenario ==
  (data = cargar_datos(script, RawTwoClients)) =>
     /\ pc = "built" => Factible(script, data)
     /\ (pc = "extracted" /\ script \in FunctionDecoders) =>
           /\ Registrados = {"V1"}
           /\ Ruta("V1") \in {<<"D", "A", "B", "D">>, <<"D", "B", "A", "D">>}
           /\ DistanciaRuta(Ruta("V1"), 1) = 15
           /\ sol.num_vehiculos = 1


\* C21 (Capacity shortfall): with two clients of demand 20 and vehicles of capacity 30,
\* no formulation has a satisfying assignment when one vehicle is available, and each has
\* one when two vehicles are available.
C21_CapacityShortfall ==
  /\ (data = cargar_datos(script, RawShortfallOne)) => ~Asignado
  /\ (data = cargar_datos(script, RawShortfallTwo) /\ pc = "built") => Factible(script, data)


\* on the one-vehicle data the solver reported the model infeasible
C21_Witness ==
  /\ data = cargar_datos(script, RawShortfallOne)
  /\ pc # "built"
  /\ termination = "infeasible"
  /\ ~incumbent


\* C22 (Fuel range): where the round trip to the client exceeds the range of the tank,
\* build_model_caso2 and build_model_caso3 have no satisfying assignment without a
\* station, and with a station midway every assignment the solver returns takes the
\* vehicle into a station where it refuels a positive amount.
C22_FuelRange ==
  (Caso(script) \in {2, 3}) =>
     /\ (data = cargar_datos(script, RawFuelNoStation)) => ~Asignado
     /\ (data = cargar_datos(script, RawFuelStation) /\ Asignado) =>
           \A v \in y : \E e \in Stations(data) :
              Entrada(x, v, e) >= 1 /\ refuel[<<v, e>>] > 0


\* C23 (Forbidden arc): on caso 3 data whose arc from the Depot to client A is forbidden
\* for every vehicle while paths through other nodes exist, build_model_caso3 has a
\* satisfying assignment, and every assignment the solver returns decodes to a route that
\* reaches A and does not hold the forbidden arc.
C23_ForbiddenArc ==
  (Caso(script) = 3 /\ data = cargar_datos(script, RawStations)) =>
     /\ pc = "built" => Factible(script, data)
     /\ pc = "extracted" =>
           /\ \E v \in Registrados : \E k \in 2..Len(Ruta(v)) : Ruta(v)[k] = "A"
           /\ \A v \in Registrados : <<"D", "A">> \notin ParesDe(Ruta(v))

\* value of the objective of the model the script solved
ValorObjetivo ==
  IF Caso(script) = 1 THEN rule_funcion_objetivo(data, x, y)
  ELSE IF Caso(script) = 2 THEN objetivo_rule_caso2(data, x, y, refuel, FuelScale)
  ELSE objetivo_rule_caso3(data, x, y, refuel)

\* total the extractor recomputed: fixed + distance + fuel + toll
CostoRecalculado ==
  sol.costos.costo_fijo + sol.costos.costo_distancia + sol.costos.costo_combustible
     + sol.costos.costo_peajes

\* C24: after the extraction of run_caso1 and run_caso3, a recomputed total cost that
\* differs from the objective of the solver comes with a discrepancy warning in the
\* extracted solution (the output is produced all the same)
C24_CostReconciliation ==
  (pc = "extracted" /\ script \in {"run_caso1", "run_caso3"}) =>
     (CostoRecalculado # ValorObjetivo => "discrepancia_costo" \in sol.advertencias)

\* values of fuel_scale = 1 / scale_fuel_cost the builder is called with
Escalas == {1, 10, 1000}

\* C25: for every solved caso 2 model and every value of scale_fuel_cost, the costo_total
\* that extraer_solucion_caso2 reports equals costo_fijo + costo_distancia +
\* costo_combustible, all of them in unscaled units
C25_ScalingInversion ==
  /\ (Caso(script) = 2 /\ Asignado) =>
        \A fuel_scale \in Escalas :
           LET c == extraer_solucion_caso2(data, x, y, refuel, fuel_scale).costos
           IN c.costo_total = c.costo_fijo + c.costo_distancia + c.costo_combustible
  /\ (pc = "extracted" /\ script \in {"run_caso2", "resolver_modelo_caso2"}) =>
        sol.costos.costo_total = sol.costos.costo_fijo + sol.costos.costo_distancia
                                    + sol.costos.costo_combustible

\* prices of the stations file after variation k of the sweep
PrecioVariado(k) == [s \in DOMAIN FuelCost |-> (FuelCost[s] * (100 + variaciones[k])) \div 100]

\* C27: every variation of analisis_sensibilidad_precios is computed from the caller's
\* original station prices, price * (1 + k/100), and the caller's data3, its fuel_price
\* included, is the loaded data throughout and after the sweep
C27_SweepIsolation ==
  /\ \E raw \in SweepInputs : data = cargar_datos(script, raw)
  /\ data.fuel_price = FuelCost
  /\ barrido.k >= 1 => barrido.fuel_price = PrecioVariado(barrido.k)

\* the sweep is over, the last variation (+20 %) was priced from the original table and
\* at least one variation produced a row
C27_Witness ==
  /\ pc = "done"
  /\ barrido.k = Len(variaciones)
  /\ barrido.fuel_price["S"] = 16800
  /\ Len(barrido.resultados) >= 2
  /\ data.fuel_price["S"] = 14000

\* client counts of the scenarios recorded as solved
Resueltos == {escalabilidad.resultados[k].n_clientes :
                 k \in {k \in 1..Len(escalabilidad.resultados) :
                           escalabilidad.resultados[k].solvable}}

\* C28: determinar_escenario_factible returns the largest client count among the recorded
\* scenarios whose status is a solved one (optimal or feasible), and at least 2; a scenario
\* recorded as infeasible, infeasible_time_limit or infeasible_capacity never raises it
C28_LargestSolved ==
  (pc = "determinado" /\ escalabilidad.existe) =>
     escalabilidad.max_factible = MaxOf(Resueltos \cup {2})

\* es_valida of run_caso3: validar_solucion found no error in the extracted solution
EsValida == validar_solucion(sol, data) = {}

\* the four checks the documentation of validar_solucion lists, read off the extracted
\* solution and the run
TodosServidos == Clients(data) \subseteq UNION {NoDepot(Ruta(v), data) : v \in Registrados}

SinArcosVetados ==
  \A v \in Registrados :
     ParesDe(Ruta(v)) \cap (data.FORBIDDEN_ARCS \cup data.RESTRICTED_ARCS[v]) = {}

RecargasEnEstaciones ==
  \A v \in Registrados : sol.recargas[v] \subseteq Stations(data) \cup {data.DEPOT}

CostosConsistentes ==
  /\ sol.costos.costo_total = CostoRecalculado
  /\ sol.costos.costo_total = ValorObjetivo

\* C29: validar_solucion returns True exactly when every client is served, no route uses a
\* forbidden or vehicle-restricted arc, every recorded refuel is at a station or the Depot
\* and the reported costs are consistent; it returns False when any of them fails
C29_ValidationComplete ==
  (pc = "extracted" /\ script = "run_caso3") =>
     (EsValida <=> (TodosServidos /\ SinArcosVetados /\ RecargasEnEstaciones
                       /\ CostosConsistentes))

\* sum of the distances of the decoded routes
DistanciaRutas ==
  SumOver([v \in Registrados |-> calcular_distancia_ruta(Ruta(v), data.dist)], Registrados)

\* C30: for every assignment that satisfies the caso 1 model, the cost extraer_solucion
\* recomputes from the decoded routes (costo_fijo_total + costo_distancia_total) equals the
\* objective, fixed cost * used vehicles + per-km cost * distance of the selected arcs, and
\* the distances of the routes add up to the distance of the selected arcs
C30_CostRefinement ==
  (pc = "extracted" /\ script = "run_caso1") =>
     /\ sol.costos.costo_fijo + sol.costos.costo_distancia
           = data.cost_fixed * Cardinality(y) + data.cost_km * DistanciaArcos(data, x)
     /\ sol.costos.costo_fijo + sol.costos.costo_distancia = sol.costos.costo_total
     /\ DistanciaRutas = DistanciaArcos(data, x)

\* two vehicles are used, each on a round trip to one client, and the recomputed cost is
\* the objective: 2 * 300000 + 3000 * 20
C30_Witness ==
  /\ pc = "extracted"
  /\ script = "run_caso1"
  /\ data = cargar_datos(script, RawShortfallTwo)
  /\ Cardinality(y) = 2
  /\ DistanciaRutas = 20
  /\ sol.costos.costo_fijo + sol.costos.costo_distancia = 660000
  /\ sol.costos.costo_total = 660000

====
